---- MODULE Spec2Model ----
(***************************************************************************)
(* Model of etl_create_json_from_webservice.py: registration numbers are   *)
(* read from a spreadsheet column, the audit web service is queried once   *)
(* per number, and one entry per number is collected and written as JSON.  *)
(*                                                                         *)
(* Text is a sequence of strings (an f-string is the concatenation of its  *)
(* fragments), so "the message contains the identifier" is a statement     *)
(* about sub-sequences.  A decoded JSON object is a function from field    *)
(* names to tagged values [t, v]; a decoded payload is [t |-> "dict", v]   *)
(* or [t |-> "list", v].                                                   *)
(*                                                                         *)
(* Environment: the requests library decodes bodies with the standard json *)
(* module, in either of its two exception layouts (requests_version); the  *)
(* service answers 2xx with an object or a list of objects, as the comment *)
(* at line 91 of the source states; writing the output file succeeds.      *)
(***************************************************************************)
EXTENDS Integers, Sequences, FiniteSets, TLC

VARIABLES pc, requests_version, inscricoes, i, todos_resultados_por_inscricao,
          outcomes, log, file_writes, file_content

vars == <<pc, requests_version, inscricoes, i, todos_resultados_por_inscricao,
          outcomes, log, file_writes, file_content>>

\* Largest number of rows of the spreadsheet column.
MaxRows == 2

(***************************************************************************)
(* Text helpers                                                            *)
(***************************************************************************)
Contains(msg, sub) ==
    \E k \in 0..(Len(msg) - Len(sub)) : SubSeq(msg, k + 1, k + Len(sub)) = sub

StartsWith(msg, sub) ==
    Len(sub) <= Len(msg) /\ SubSeq(msg, 1, Len(sub)) = sub

\* str.lower() on one character of the modelled alphabet.
LowerChar(c) == CASE c = "N" -> "n" [] c = "A" -> "a" [] OTHER -> c

lower(s) == [k \in 1..Len(s) |-> LowerChar(s[k])]

RECURSIVE lstrip(_)
lstrip(s) == IF s # <<>> /\ Head(s) = " " THEN lstrip(Tail(s)) ELSE s

RECURSIVE rstrip(_)
rstrip(s) ==
    IF s # <<>> /\ s[Len(s)] = " " THEN rstrip(SubSeq(s, 1, Len(s) - 1)) ELSE s

strip(s) == rstrip(lstrip(s))

(***************************************************************************)
(* ler_inscricoes_xls                                                      *)
(***************************************************************************)
NOME_COLUNA_INSCRICOES == "NUMR_INSCRICAO"

\* Cell texts of the column after astype(str): a blank cell reads as "nan".
CellTexts ==
    { <<" ">>, <<"n", "a", "n">>, <<"N", "A", "N">>,
      <<"7">>, <<" ", "7">>, <<"8", " ">> }

RECURSIVE SeqsUpTo(_, _)
SeqsUpTo(S, n) ==
    IF n = 0 THEN { <<>> }
    ELSE LET shorter == SeqsUpTo(S, n - 1)
         IN  shorter \cup { Append(s, x) : s \in { t \in shorter : Len(t) = n - 1 }, x \in S }

\* What pd.read_excel does: it raises, or returns a frame with its columns.
ReadExcelOutcomes ==
    { [raises |-> e] : e \in {"ImportError", "FileNotFoundError", "ValueError", "Exception"} }
    \cup
    { [columns |-> cols, cells |-> cells] :
        cols \in { {NOME_COLUNA_INSCRICOES, "NOME"}, {"NOME"} },
        cells \in SeqsUpTo(CellTexts, MaxRows) }

ReadRaises(df) == "raises" \in DOMAIN df

RECURSIVE FilterInscricoes(_)
FilterInscricoes(series) ==
    IF series = <<>> THEN <<>>
    ELSE LET s == Head(series)
             rest == FilterInscricoes(Tail(series))
         IN  IF s # <<>> /\ lower(s) # <<"n", "a", "n">> THEN <<s>> \o rest ELSE rest

\* [ok |-> TRUE, inscricoes] when the list is returned, [ok |-> FALSE, raises] otherwise.
ler_inscricoes_xls(df, nome_coluna) ==
    IF ReadRaises(df) THEN [ok |-> FALSE, raises |-> df.raises]
    ELSE IF nome_coluna \notin df.columns THEN [ok |-> FALSE, raises |-> "ValueError"]
    ELSE [ok |-> TRUE,
          inscricoes |-> FilterInscricoes([k \in 1..Len(df.cells) |-> strip(df.cells[k])])]

(***************************************************************************)
(* Decoded JSON                                                            *)
(***************************************************************************)
JList(items) == [t |-> "list", v |-> items]
JNull == [t |-> "null", v |-> <<>>]
JNum(n) == [t |-> "num", v |-> <<n>>]
JStr(s) == [t |-> "str", v |-> <<s>>]

CAMPO == "CampoPersonalizadoTermoBeneficioList"
AUDITORIAS == "Auditorias"

RecBare == [f \in {"Id"} |-> JNum("1")]
RecFull ==
    [f \in {"Id", CAMPO, AUDITORIAS} |->
        CASE f = "Id" -> JNum("2") [] f = CAMPO -> JList(<<"c1">>) [] OTHER -> JList(<<"a1", "a2">>)]
RecNull ==
    [f \in {"Id", CAMPO, AUDITORIAS} |->
        CASE f = "Id" -> JNum("3") [] f = CAMPO -> JList(<<"c3">>) [] OTHER -> JNull]
RecMessage == [f \in {"message"} |-> JStr("not found")]

\* Response bodies, as text.
BodyEmptyList == "[]"
BodyBare == "{\"Id\": 1}"
BodyNull == "{\"Id\": 3, \"CampoPersonalizadoTermoBeneficioList\": [\"c3\"], \"Auditorias\": null}"
BodyList2 == "[{\"Id\":1},{\"Id\":2,\"CampoPersonalizadoTermoBeneficioList\":[\"c1\"],\"Auditorias\":[\"a1\",\"a2\"]}]"
BodyMessage == "{ \"message\" : \"not found\" }"
BodyHtml == "<html>Service unavailable</html>"

\* Bodies of the answers to a query, and bodies of error pages.
Bodies == {BodyEmptyList, BodyBare, BodyNull, BodyList2, BodyHtml}
ErrorBodies == {BodyMessage, BodyHtml}

\* Response.json() / json.loads on the modelled bodies.
JsonLoads(text) ==
    CASE text = BodyEmptyList -> [ok |-> TRUE, value |-> [t |-> "list", v |-> <<>>]]
      [] text = BodyBare -> [ok |-> TRUE, value |-> [t |-> "dict", v |-> RecBare]]
      [] text = BodyNull -> [ok |-> TRUE, value |-> [t |-> "dict", v |-> RecNull]]
      [] text = BodyList2 -> [ok |-> TRUE, value |-> [t |-> "list", v |-> <<RecBare, RecFull>>]]
      [] text = BodyMessage -> [ok |-> TRUE, value |-> [t |-> "dict", v |-> RecMessage]]
      [] OTHER -> [ok |-> FALSE]

\* json.dumps(value, ensure_ascii=False) on the decoded values above.
JsonDumps(value) ==
    IF value.t = "list"
    THEN IF value.v = <<>> THEN "[]"
         ELSE "[{\"Id\": 1}, {\"Id\": 2, \"CampoPersonalizadoTermoBeneficioList\": [\"c1\"], \"Auditorias\": [\"a1\", \"a2\"]}]"
    ELSE CASE value.v = RecBare -> "{\"Id\": 1}"
           [] value.v = RecNull -> BodyNull
           [] OTHER -> "{\"message\": \"not found\"}"

(***************************************************************************)
(* consultar_auditoria                                                     *)
(***************************************************************************)
UrlPrefix ==
    "https://sistemas.sefaz.go.gov.br/gre-service/v1/relatorio/consulta-publica-auditorias/0/"

\* What requests.get does: it raises, or returns a response.
RaiseEvents ==
    { [kind |-> "raise", exc |-> "ConnectTimeout", text |-> "connect timeout=30"],
      [kind |-> "raise", exc |-> "ReadTimeout", text |-> "read timeout=30"],
      [kind |-> "raise", exc |-> "ConnectionError", text |-> "connection refused"],
      [kind |-> "raise", exc |-> "TooManyRedirects", text |-> "exceeded 30 redirects"],
      [kind |-> "raise", exc |-> "RuntimeError", text |-> "unexpected"] }

OtherStatusCodes == {300, 404, 500}

ResponseEvents ==
    { [kind |-> "response", status_code |-> 200, text |-> b] : b \in Bodies }
    \cup
    { [kind |-> "response", status_code |-> s, text |-> b] :
        s \in OtherStatusCodes, b \in ErrorBodies }

Events == RaiseEvents \cup ResponseEvents

\* The two layouts of the exception Response.json() raises on an invalid body:
\* since requests 2.27 it is requests.exceptions.JSONDecodeError, a
\* RequestException and a json.JSONDecodeError; before, json.JSONDecodeError.
RequestsVersions == {"2.27+", "pre-2.27"}

JsonErrorOf(version) ==
    IF version = "2.27+" THEN "requests.JSONDecodeError" ELSE "json.JSONDecodeError"

\* The classes an exception is an instance of.
Mro(exc) ==
    CASE exc = "ConnectTimeout" -> {"ConnectTimeout", "ConnectionError", "Timeout", "RequestException", "Exception"}
      [] exc = "ReadTimeout" -> {"ReadTimeout", "Timeout", "RequestException", "Exception"}
      [] exc = "ConnectionError" -> {"ConnectionError", "RequestException", "Exception"}
      [] exc = "TooManyRedirects" -> {"TooManyRedirects", "RequestException", "Exception"}
      [] exc = "HTTPError" -> {"HTTPError", "RequestException", "Exception"}
      [] exc = "requests.JSONDecodeError" ->
            {"requests.JSONDecodeError", "InvalidJSONError", "RequestException",
             "json.JSONDecodeError", "ValueError", "Exception"}
      [] exc = "json.JSONDecodeError" -> {"json.JSONDecodeError", "ValueError", "Exception"}
      [] OTHER -> {exc, "Exception"}

\* Response.raise_for_status(): raises for 4xx and 5xx.
RaisesForStatus(status_code) == 400 <= status_code /\ status_code < 600

\* str(e) of the HTTPError raise_for_status builds.
HTTPErrorText(numero_inscricao, status_code) ==
    <<ToString(status_code),
      IF status_code < 500 THEN " Client Error: for url: " ELSE " Server Error: for url: ",
      UrlPrefix>> \o numero_inscricao

\* The try body, lines 13-15: the value returned, or the exception raised.
TryBody(numero_inscricao, ev, version) ==
    IF ev.kind = "raise"
    THEN [raises |-> ev.exc, text |-> <<ev.text>>, resposta_bound |-> FALSE]
    ELSE IF RaisesForStatus(ev.status_code)
    THEN [raises |-> "HTTPError", text |-> HTTPErrorText(numero_inscricao, ev.status_code),
          resposta_bound |-> TRUE]
    ELSE IF JsonLoads(ev.text).ok
    THEN [returns |-> JsonLoads(ev.text).value]
    ELSE [raises |-> JsonErrorOf(version), text |-> <<"Expecting value: line 1 column 1 (char 0)">>,
          resposta_bound |-> TRUE]

\* The except clauses in the order they are written.
ExceptClauses ==
    <<"Timeout", "HTTPError", "ConnectionError", "RequestException", "json.JSONDecodeError",
      "Exception">>

\* Faulty variant: the catch-all clause written first.
Handler_CatchAllFirst(exc) == "Exception"

\* The first clause that matches the raised exception.
Handler(exc) ==
    LET matching == { k \in 1..Len(ExceptClauses) : ExceptClauses[k] \in Mro(exc) }
    IN  ExceptClauses[CHOOSE k \in matching : \A m \in matching : k <= m]

\* Lines 20-26.
HTTPErrorResult(numero_inscricao, ev, e_text) ==
    LET error_msg == <<"HTTP Error for registration ">> \o numero_inscricao \o <<": ">>
                     \o e_text \o <<". Status: ", ToString(ev.status_code)>>
        parsed == JsonLoads(ev.text)
    IN  [status |-> "failed",
         error |-> IF parsed.ok
                   THEN error_msg \o <<". Details: ", JsonDumps(parsed.value)>>
                   ELSE error_msg \o <<". Raw response: ", ev.text>>,
         raw_response |-> ev.text]

consultar_auditoria(numero_inscricao, ev, version) ==
    LET r == TryBody(numero_inscricao, ev, version)
    IN  IF "returns" \in DOMAIN r THEN [status |-> "success", data |-> r.returns]
        ELSE LET h == Handler(r.raises)
             IN  CASE h = "Timeout" ->
                        [status |-> "failed",
                         error |-> <<"Timeout exceeded while querying registration ">>
                                   \o numero_inscricao \o <<".">>]
                   [] h = "HTTPError" -> HTTPErrorResult(numero_inscricao, ev, r.text)
                   [] h = "ConnectionError" ->
                        [status |-> "failed",
                         error |-> <<"Connection error for registration ">> \o numero_inscricao
                                   \o <<": ">> \o r.text
                                   \o <<". Check your internet or the webservice server.">>]
                   [] h = "RequestException" ->
                        [status |-> "failed",
                         error |-> <<"Request error for registration ">> \o numero_inscricao
                                   \o <<": ">> \o r.text \o <<".">>]
                   [] h = "json.JSONDecodeError" ->
                        [status |-> "failed",
                         error |-> <<"Error decoding JSON for registration ">> \o numero_inscricao
                                   \o <<": ">> \o r.text \o <<".">>,
                         raw_response |-> IF r.resposta_bound THEN ev.text ELSE "N/A"]
                   [] OTHER ->
                        [status |-> "failed",
                         error |-> <<"Unexpected error for registration ">> \o numero_inscricao
                                   \o <<": ">> \o r.text \o <<".">>]

(***************************************************************************)
(* consultar_varias_inscricoes                                             *)
(***************************************************************************)
\* Lines 92-93: a payload that is not a list is wrapped in one.
ComoLista(dados_retornados) ==
    IF dados_retornados.t = "list" THEN dados_retornados.v ELSE <<dados_retornados.v>>

\* Faulty variant: the two fields are set to [] whether the record has them or not.
NormalizarRegistro_Overwrites(record) ==
    [f \in DOMAIN record \cup {CAMPO, AUDITORIAS} |->
        IF f \in {CAMPO, AUDITORIAS} THEN JList(<<>>) ELSE record[f]]

\* Lines 99-104: each of the two fields is added as [] when the record lacks it.
NormalizarRegistro(record) ==
    [f \in DOMAIN record \cup {CAMPO, AUDITORIAS} |->
        IF f \in DOMAIN record THEN record[f] ELSE JList(<<>>)]

\* Faulty variant: the status is not overridden when the service returns no data.
MontarEntrada_KeepsStatusOnEmpty(numero, consulta_resultado) ==
    IF consulta_resultado.status = "success"
    THEN LET dados_retornados ==
                 IF consulta_resultado.data.t = "list" THEN consulta_resultado.data.v
                 ELSE <<consulta_resultado.data.v>>
         IN  [numero_inscricao_consultado |-> numero,
              status |-> consulta_resultado.status,
              auditorias |-> [k \in 1..Len(dados_retornados) |->
                                 [f \in DOMAIN dados_retornados[k] \cup {CAMPO, AUDITORIAS} |->
                                     IF f \in DOMAIN dados_retornados[k]
                                     THEN dados_retornados[k][f] ELSE JList(<<>>)]]]
    ELSE IF "raw_response" \in DOMAIN consulta_resultado
    THEN [numero_inscricao_consultado |-> numero,
          status |-> consulta_resultado.status,
          auditorias |-> <<>>,
          error |-> consulta_resultado.error,
          raw_response |-> consulta_resultado.raw_response]
    ELSE [numero_inscricao_consultado |-> numero,
          status |-> consulta_resultado.status,
          auditorias |-> <<>>,
          error |-> consulta_resultado.error]

\* Lines 82-117: the entry of one registration number.
MontarEntrada(numero, consulta_resultado) ==
    IF consulta_resultado.status = "success"
    THEN LET dados_retornados == ComoLista(consulta_resultado.data)
         IN  IF dados_retornados # <<>>
             THEN [numero_inscricao_consultado |-> numero,
                   status |-> consulta_resultado.status,
                   auditorias |-> [k \in 1..Len(dados_retornados) |->
                                      NormalizarRegistro(dados_retornados[k])]]
             ELSE [numero_inscricao_consultado |-> numero,
                   status |-> "no_data_returned",
                   auditorias |-> <<>>]
    ELSE IF "raw_response" \in DOMAIN consulta_resultado
    THEN [numero_inscricao_consultado |-> numero,
          status |-> consulta_resultado.status,
          auditorias |-> <<>>,
          error |-> consulta_resultado.error,
          raw_response |-> consulta_resultado.raw_response]
    ELSE [numero_inscricao_consultado |-> numero,
          status |-> consulta_resultado.status,
          auditorias |-> <<>>,
          error |-> consulta_resultado.error]

\* Faulty variant: an entry whose query failed is not collected.
AcrescentarEntrada_SkipsFailed(resultados, entrada_inscricao) ==
    IF entrada_inscricao.status = "failed" THEN resultados
    ELSE Append(resultados, entrada_inscricao)

\* Faulty variant: a failed query discards the entries collected before it.
AcrescentarEntrada_RestartsOnFailure(resultados, entrada_inscricao) ==
    IF entrada_inscricao.status = "failed" THEN <<entrada_inscricao>>
    ELSE Append(resultados, entrada_inscricao)

\* Line 119.
AcrescentarEntrada(resultados, entrada_inscricao) == Append(resultados, entrada_inscricao)

\* Lines 76 and 11: what is printed before the GET of line 13.
PrintsAntes(k, total, numero) ==
    << [print |-> "processing", index |-> k, total |-> total, numero |-> numero],
       [print |-> "querying_url", numero |-> numero, url |-> <<UrlPrefix>> \o numero] >>

\* Faulty variant: nothing is printed once the query has returned.
PrintsDepois_Silent(entrada_inscricao) == << >>

\* Lines 111 and 117: what is printed once the query has returned.
PrintsDepois(entrada_inscricao) ==
    IF entrada_inscricao.status = "no_data_returned"
    THEN << [print |-> "no_data", numero |-> entrada_inscricao.numero_inscricao_consultado] >>
    ELSE IF entrada_inscricao.status = "failed"
    THEN << [print |-> "error", numero |-> entrada_inscricao.numero_inscricao_consultado,
             error |-> entrada_inscricao.error] >>
    ELSE << >>

\* Faulty variant: the file is written even when nothing was collected.
DeveGravar_Always(resultados) == TRUE

\* Line 121.
DeveGravar(resultados) == resultados # <<>>

(***************************************************************************)
(* The run: the __main__ block and the loop of consultar_varias_inscricoes *)
(***************************************************************************)
Init ==
    /\ pc = "start"
    /\ requests_version \in RequestsVersions
    /\ inscricoes = <<>>
    /\ i = 0
    /\ todos_resultados_por_inscricao = <<>>
    /\ outcomes = <<>>
    /\ log = <<>>
    /\ file_writes = 0
    /\ file_content = <<>>

\* Lines 140-148 when ler_inscricoes_xls returns, up to the entry of the loop.
LerInscricoes ==
    /\ pc = "start"
    /\ \E df \in ReadExcelOutcomes :
          LET lidas == ler_inscricoes_xls(df, NOME_COLUNA_INSCRICOES)
          IN  /\ lidas.ok
              /\ inscricoes' = lidas.inscricoes
              /\ log' = << [print |-> "starting"],
                           [print |-> "total_read", total |-> Len(lidas.inscricoes)] >>
    /\ pc' = "loop"
    /\ UNCHANGED <<requests_version, i, todos_resultados_por_inscricao, outcomes,
                   file_writes, file_content>>

\* Lines 140-145 and 150-153 when ler_inscricoes_xls raises.
ErroCritico ==
    /\ pc = "start"
    /\ \E df \in ReadExcelOutcomes :
          LET lidas == ler_inscricoes_xls(df, NOME_COLUNA_INSCRICOES)
          IN  /\ ~lidas.ok
              /\ log' = << [print |-> "starting"],
                           [print |-> "critical_error", raises |-> lidas.raises] >>
    /\ pc' = "critical"
    /\ UNCHANGED <<requests_version, inscricoes, i, todos_resultados_por_inscricao,
                   outcomes, file_writes, file_content>>

\* Lines 75-119: one iteration of the loop, for the response ev of the service.
ProcessarInscricao ==
    /\ pc = "loop"
    /\ i < Len(inscricoes)
    /\ \E ev \in Events :
          LET numero == inscricoes[i + 1]
              consulta_resultado == consultar_auditoria(numero, ev, requests_version)
              entrada_inscricao == MontarEntrada(numero, consulta_resultado)
          IN  /\ todos_resultados_por_inscricao' =
                    AcrescentarEntrada(todos_resultados_por_inscricao, entrada_inscricao)
              /\ outcomes' = Append(outcomes, ev)
              /\ log' = log \o PrintsAntes(i + 1, Len(inscricoes), numero)
                            \o PrintsDepois(entrada_inscricao)
    /\ i' = i + 1
    /\ UNCHANGED <<pc, requests_version, inscricoes, file_writes, file_content>>

\* Lines 121-128: after the loop, the file is written when there are entries.
GravarArquivo ==
    /\ pc = "loop"
    /\ i = Len(inscricoes)
    /\ IF DeveGravar(todos_resultados_por_inscricao)
       THEN /\ file_writes' = file_writes + 1
            /\ file_content' = todos_resultados_por_inscricao
            /\ log' = log \o << [print |-> "completed"],
                                [print |-> "saved", total |-> Len(todos_resultados_por_inscricao)] >>
       ELSE /\ UNCHANGED <<file_writes, file_content>>
            /\ log' = log \o << [print |-> "completed"], [print |-> "nothing_to_save"] >>
    /\ pc' = "done"
    /\ UNCHANGED <<requests_version, inscricoes, i, todos_resultados_por_inscricao, outcomes>>

Next == LerInscricoes \/ ErroCritico \/ ProcessarInscricao \/ GravarArquivo

Spec == Init /\ [][Next]_vars

(***************************************************************************)
(* Properties                                                              *)
(***************************************************************************)
Processed == 1..Len(todos_resultados_por_inscricao)

Entrada(k) == todos_resultados_por_inscricao[k]

\* The outcome of the query of the k-th registration number.
Resultado(k) == consultar_auditoria(inscricoes[k], outcomes[k], requests_version)

Is2xx(status_code) == 200 <= status_code /\ status_code <= 299

\* C1: the result document holds exactly one entry per identifier, in input
\* order: while the loop runs it holds the entries of the identifiers
\* processed so far, entry k carries identifier k, and at the end of the run
\* its length is the number of identifiers, whatever the outcomes were.
C1_OneEntryPerIdentifier ==
    /\ Len(todos_resultados_por_inscricao) = i
    /\ i <= Len(inscricoes)
    /\ \A k \in Processed : Entrada(k).numero_inscricao_consultado = inscricoes[k]
    /\ pc = "done" => Len(todos_resultados_por_inscricao) = Len(inscricoes)

C1_Witness ==
    /\ pc = "done"
    /\ Len(todos_resultados_por_inscricao) = 2
    /\ inscricoes[1] # inscricoes[2]
    /\ Entrada(1).status = "failed"
    /\ Entrada(2).status = "success"

\* C2: a failure of one identifier's query stays in that identifier's entry
\* and the run goes on: every entry is determined by its own identifier and
\* its own query outcome alone, the loop can always take its next step, the
\* run is never aborted once a query was issued, and it ends only after the
\* last identifier.
C2_FailureIsIsolated ==
    /\ \A k \in Processed : Entrada(k) = MontarEntrada(inscricoes[k], Resultado(k))
    /\ pc = "loop" => ENABLED Next
    /\ pc = "critical" => outcomes = <<>>
    /\ pc = "done" => i = Len(inscricoes) /\ Len(outcomes) = Len(inscricoes)

C2_Witness ==
    /\ pc = "done"
    /\ Len(todos_resultados_por_inscricao) = 2
    /\ Entrada(1).status = "failed"
    /\ Entrada(2).status = "no_data_returned"

\* What C3 says of the entry of a response with an error status.
HTTPFailureShape(k) ==
    LET ev == outcomes[k]
        e == Entrada(k)
        parsed == JsonLoads(ev.text)
    IN  /\ e.status = "failed"
        /\ "error" \in DOMAIN e
        /\ Contains(e.error, inscricoes[k])
        /\ Contains(e.error, <<". Status: ", ToString(ev.status_code)>>)
        /\ IF parsed.ok
           THEN Contains(e.error, <<JsonDumps(parsed.value)>>)
           ELSE /\ Contains(e.error, <<ev.text>>)
                /\ "raw_response" \in DOMAIN e
                /\ e.raw_response = ev.text

\* C3 as stated: every response whose status is not 2xx gives a failed entry
\* whose message holds the identifier and the status code, with the decoded
\* details when the body is JSON and the raw text, also attached as raw
\* body, when it is not.
C3_AsStated ==
    \A k \in Processed :
        (outcomes[k].kind = "response" /\ ~Is2xx(outcomes[k].status_code))
            => HTTPFailureShape(k)

\* C3, amended: the same, for every response whose status is 4xx or 5xx.
C3_ErrorStatusFails ==
    \A k \in Processed :
        (outcomes[k].kind = "response" /\ outcomes[k].status_code \in 400..599)
            => HTTPFailureShape(k)

C3_Witness ==
    \E k \in Processed :
        /\ outcomes[k].kind = "response"
        /\ outcomes[k].status_code = 500
        /\ outcomes[k].text = BodyHtml
        /\ Entrada(k).status = "failed"
        /\ Entrada(k).raw_response = BodyHtml

\* C4: a 2xx response whose body is not valid JSON gives a failed entry
\* whose message names the decode error and which carries the raw response
\* text (or the placeholder) as its raw body.
C4_InvalidJsonCarriesRawBody ==
    \A k \in Processed :
        (/\ outcomes[k].kind = "response"
         /\ Is2xx(outcomes[k].status_code)
         /\ ~JsonLoads(outcomes[k].text).ok)
            => /\ Entrada(k).status = "failed"
               /\ Contains(Entrada(k).error, <<"Expecting value: line 1 column 1 (char 0)">>)
               /\ "raw_response" \in DOMAIN Entrada(k)
               /\ Entrada(k).raw_response \in {outcomes[k].text, "N/A"}

\* The class the priority order of C5 gives a request.
TimedOut(ev) == ev.kind = "raise" /\ ev.exc \in {"ConnectTimeout", "ReadTimeout"}
ConnectionFailed(ev) == ev.kind = "raise" /\ ev.exc \in {"ConnectTimeout", "ConnectionError"}
ClassByPriority(ev) ==
    IF TimedOut(ev) THEN "timeout"
    ELSE IF ConnectionFailed(ev) THEN "connection"
    ELSE IF ev.kind = "response" /\ ~Is2xx(ev.status_code) THEN "http_status"
    ELSE IF ev.kind = "response" /\ ~JsonLoads(ev.text).ok THEN "json_decode"
    ELSE IF ev.kind = "raise" THEN "catch_all"
    ELSE "success"

\* The class an entry reports, read off its status and its message.
ClassReported(e) ==
    IF e.status # "failed" THEN "success"
    ELSE IF StartsWith(e.error, <<"Timeout exceeded while querying registration ">>) THEN "timeout"
    ELSE IF StartsWith(e.error, <<"Connection error for registration ">>) THEN "connection"
    ELSE IF StartsWith(e.error, <<"HTTP Error for registration ">>) THEN "http_status"
    ELSE IF StartsWith(e.error, <<"Error decoding JSON for registration ">>) THEN "json_decode"
    ELSE "catch_all"

\* C5: every query reports exactly the class the priority order timeout,
\* connection failure, non-2xx status, JSON-decode failure, catch-all,
\* success gives it; stated for the requests that raise and for the
\* responses whose status is 2xx, 4xx or 5xx.
C5_ClassifiedByPriority ==
    \A k \in Processed :
        (outcomes[k].kind = "response" =>
            (Is2xx(outcomes[k].status_code) \/ outcomes[k].status_code \in 400..599))
            => ClassReported(Entrada(k)) = ClassByPriority(outcomes[k])

\* C6: status and audits list of every entry agree with the query outcome:
\* a single object gives 'success' and one record, a list of n > 0 objects
\* 'success' and n records in payload order, the empty list
\* 'no_data_returned' and no record, a failure 'failed', no record and the
\* error message; so the audits list is empty unless the status is 'success'.
C6_StatusAgreesWithOutcome ==
    \A k \in Processed :
        LET r == Resultado(k)
            e == Entrada(k)
        IN  /\ (r.status = "success" /\ r.data.t = "dict") =>
                   /\ e.status = "success"
                   /\ Len(e.auditorias) = 1
                   /\ \A f \in DOMAIN r.data.v : e.auditorias[1][f] = r.data.v[f]
            /\ (r.status = "success" /\ r.data.t = "list" /\ Len(r.data.v) > 0) =>
                   /\ e.status = "success"
                   /\ Len(e.auditorias) = Len(r.data.v)
                   /\ \A j \in 1..Len(r.data.v) :
                          \A f \in DOMAIN r.data.v[j] : e.auditorias[j][f] = r.data.v[j][f]
            /\ (r.status = "success" /\ r.data.t = "list" /\ Len(r.data.v) = 0) =>
                   /\ e.status = "no_data_returned"
                   /\ e.auditorias = <<>>
            /\ r.status = "failed" =>
                   /\ e.status = "failed"
                   /\ e.auditorias = <<>>
                   /\ "error" \in DOMAIN e
                   /\ e.error = r.error
            /\ e.status \in {"success", "no_data_returned", "failed"}
            /\ e.status # "success" => e.auditorias = <<>>

C6_Witness ==
    /\ Len(todos_resultados_por_inscricao) = 2
    /\ outcomes[1].text = BodyEmptyList
    /\ Entrada(1).status = "no_data_returned"
    /\ outcomes[2].text = BodyList2
    /\ Len(Entrada(2).auditorias) = 2

\* C7: every audit record of every entry holds the custom-fields field and
\* the audits field, and the value of each of the two is a list.
C7_BothFieldsAreLists ==
    \A k \in Processed :
        \A j \in 1..Len(Entrada(k).auditorias) :
            LET record == Entrada(k).auditorias[j]
            IN  /\ {CAMPO, AUDITORIAS} \subseteq DOMAIN record
                /\ record[CAMPO].t = "list"
                /\ record[AUDITORIAS].t = "list"

ProgressPositions(k) ==
    { p \in 1..Len(log) : log[p].print = "processing" /\ log[p].index = k }

\* The prints from the progress indication of identifier k up to the next
\* progress indication, or up to the end of the loop.
Segment(k) ==
    LET first == CHOOSE p \in ProgressPositions(k) : TRUE
        later == { p \in (first + 1)..Len(log) : log[p].print \in {"processing", "completed"} }
        last == IF later = {} THEN Len(log)
                ELSE (CHOOSE p \in later : \A q \in later : p <= q) - 1
    IN  SubSeq(log, first, last)

\* The prints of identifier k that follow the print made as its query is issued.
OutcomeIndications(k) == SubSeq(Segment(k), 3, Len(Segment(k)))

\* The progress indication of identifier k comes first and once, with index
\* and total, and the query is issued right after it.
ProgressBeforeQuery(k) ==
    /\ Cardinality(ProgressPositions(k)) = 1
    /\ Len(Segment(k)) >= 2
    /\ Segment(k)[1].total = Len(inscricoes)
    /\ Segment(k)[1].numero = inscricoes[k]
    /\ Segment(k)[2].print = "querying_url"
    /\ Segment(k)[2].numero = inscricoes[k]

\* C9 as stated: for every identifier processed, a progress indication is
\* emitted before its query and an outcome indication after the query
\* returns and before the next progress indication, whatever the outcome.
C9_AsStated ==
    \A k \in Processed : ProgressBeforeQuery(k) /\ OutcomeIndications(k) # <<>>

\* C9, amended: the progress indication is emitted before the query for
\* every identifier; exactly one outcome indication follows, naming the
\* identifier, when the outcome is no data returned or failed, and none
\* when it is success with data.
C9_OutcomeIndicationUnlessSuccess ==
    \A k \in Processed :
        /\ ProgressBeforeQuery(k)
        /\ Entrada(k).status = "success" => OutcomeIndications(k) = <<>>
        /\ Entrada(k).status # "success" =>
               /\ Len(OutcomeIndications(k)) = 1
               /\ OutcomeIndications(k)[1].numero = inscricoes[k]
               /\ OutcomeIndications(k)[1].print =
                      (IF Entrada(k).status = "failed" THEN "error" ELSE "no_data")

C9_Witness ==
    /\ pc = "done"
    /\ Len(todos_resultados_por_inscricao) = 2
    /\ Entrada(1).status = "success"
    /\ OutcomeIndications(1) = <<>>
    /\ Entrada(2).status = "failed"
    /\ Len(OutcomeIndications(2)) = 1

\* C10: the output file is written at most once, and exactly when the run
\* has processed every identifier and the document is not empty: not while
\* identifiers remain, not for an empty identifier list, and neither a write
\* nor a query happens when reading the identifiers fails.
C10_WrittenOnceAtTheEnd ==
    /\ file_writes <= 1
    /\ file_writes = 1 <=>
           (/\ pc = "done"
            /\ Len(todos_resultados_por_inscricao) = Len(inscricoes)
            /\ todos_resultados_por_inscricao # <<>>)
    /\ file_writes = 1 => file_content = todos_resultados_por_inscricao
    /\ (pc = "done" /\ inscricoes = <<>>) => file_writes = 0
    /\ pc = "critical" => (file_writes = 0 /\ outcomes = <<>> /\ inscricoes = <<>>)

C10_Witness ==
    /\ pc = "done"
    /\ file_writes = 1
    /\ Len(file_content) = 2

====
